---- MODULE Spec2Model ----
(***************************************************************************)
(* Break-report backend (backend/src/server.js): the token cache, the      *)
(* GET /api/break-report handler with its awaits as steps, and the         *)
(* filter / sort / group / pair / aggregate / sort pipeline it runs on the *)
(* fetched access events.                                                  *)
(***************************************************************************)
EXTENDS Integers, Sequences, FiniteSets, TLC

(***************************************************************************)
(* Bounds of the model.                                                    *)
(***************************************************************************)
\* The most raw events the upstream returns over all pages of one request.
MaxEvents == 3

\* The instants (ms, counted from an epoch of the model) the vendor's events
\* carry: at half-minute steps, and at minute steps where two users or two
\* doors are in play.
Times == {0, 30000, 60000}
CoarseTimes == {0, 60000}

\* How often the clock is seen to advance while the token cache is watched.
MaxTicks == 3

(***************************************************************************)
(* Program constants.                                                      *)
(***************************************************************************)
TokenTtlSec == 300
DefaultMinMinutes == 45
MsPerMinute == 60000
MinutesPerHour == 60
SecPerMinute == 60
MsPerSecond == 1000
MsPerDay == 86400000
SecPerDay == 86400

(***************************************************************************)
(* JavaScript numbers: an integer or NaN.                                  *)
(***************************************************************************)
Num(v) == [nan |-> FALSE, val |-> v]
NaN == [nan |-> TRUE, val |-> 0]

\* a - b
NumSub(a, b) == IF a.nan \/ b.nan THEN NaN ELSE Num(a.val - b.val)
\* a + b
NumAdd(a, b) == IF a.nan \/ b.nan THEN NaN ELSE Num(a.val + b.val)
\* a >= b (false when either is NaN)
NumGE(a, b) == ~a.nan /\ ~b.nan /\ a.val >= b.val
\* a !== b (true when either is NaN)
NumNeq(a, b) == a.nan \/ b.nan \/ a.val # b.val
\* Math.max(0, a)
MathMax0(a) == IF a.nan THEN NaN ELSE IF a.val > 0 THEN a ELSE Num(0)

(***************************************************************************)
(* Strings of the vendor API, as far as the code looks into them.          *)
(***************************************************************************)
\* String.prototype.toLowerCase on the direction strings of the model.
ToLowerCase(s) ==
  CASE s = "IN" -> "in"
    [] s = "Entry" -> "entry"
    [] s = "ENTRANCE" -> "entrance"
    [] s = "Out" -> "out"
    [] s = "EXIT" -> "exit"
    [] s = "Egress" -> "egress"
    [] s = "Denied" -> "denied"
    [] OTHER -> s

\* r.charAt(0).toUpperCase() + r.slice(1) on the lowercased strings.
Capitalize(r) ==
  CASE r = "denied" -> "Denied"
    [] r = "in" -> "In"
    [] r = "out" -> "Out"
    [] OTHER -> r

\* The table looked up without lowercasing first.
normalizeDirectionAsSpelled(raw) ==
  IF raw = "" THEN [norm |-> "unknown", label |-> "Unknown"]
  ELSE IF raw \in {"in", "entry", "entrance"} THEN [norm |-> "in", label |-> "Inbound"]
  ELSE IF raw \in {"out", "exit", "egress"} THEN [norm |-> "out", label |-> "Outbound"]
  ELSE [norm |-> raw, label |-> Capitalize(raw)]

normalizeDirection(raw) ==
  IF raw = "" THEN [norm |-> "unknown", label |-> "Unknown"]
  ELSE LET r == ToLowerCase(raw) IN
       IF r \in {"in", "entry", "entrance"} THEN [norm |-> "in", label |-> "Inbound"]
       ELSE IF r \in {"out", "exit", "egress"} THEN [norm |-> "out", label |-> "Outbound"]
       ELSE [norm |-> r, label |-> Capitalize(r)]

\* An event type is the sequence of its '_'-separated words, so
\* "DOOR_APB_DOUBLE_ENTRY" is <<"DOOR", "APB", "DOUBLE", "ENTRY">>, the
\* empty string is <<>>, and t.startsWith('DOOR_APB_') asks for the two
\* words and a third to follow the second '_'.
isAPB(event_type) ==
  /\ Len(event_type) >= 3
  /\ event_type[1] = "DOOR"
  /\ event_type[2] = "APB"

\* ev.event_type.replace('DOOR_APB_', '').replace(/_/g, ' '): the words
\* after the prefix, which the code joins with spaces.
ApbLabel(event_type) == SubSeq(event_type, 3, Len(event_type))

\* The label with Math.floor in the place of Math.round.
msToHMMFloor(ms) ==
  IF ms.nan THEN "NaNm"
  ELSE LET totalMinutes == ms.val \div MsPerMinute
           h == totalMinutes \div MinutesPerHour
           m == totalMinutes % MinutesPerHour
       IN IF h > 0 THEN ToString(h) \o "h " \o ToString(m) \o "m"
          ELSE ToString(m) \o "m"

\* The label with the hour component always there.
msToHMMWithHours(ms) ==
  IF ms.nan THEN "NaNm"
  ELSE LET totalMinutes == (2 * ms.val + MsPerMinute) \div (2 * MsPerMinute)
           h == totalMinutes \div MinutesPerHour
           m == totalMinutes % MinutesPerHour
       IN ToString(h) \o "h " \o ToString(m) \o "m"

msToHMM(ms) ==
  IF ms.nan THEN "NaNm"
  ELSE LET totalMinutes == (2 * ms.val + MsPerMinute) \div (2 * MsPerMinute)
           h == totalMinutes \div MinutesPerHour
           m == totalMinutes % MinutesPerHour
       IN IF h > 0 THEN ToString(h) \o "h " \o ToString(m) \o "m"
          ELSE ToString(m) \o "m"

(***************************************************************************)
(* luxon DateTime: the instant in ms (NaN when the ISO string did not      *)
(* parse) and the zone it is shown in.                                     *)
(***************************************************************************)
\* Offset of the zones of the model (no daylight saving inside the window).
ZoneOffsetMs(tz) == IF tz = "America/Chicago" THEN 0 - 5 * MinutesPerHour * MsPerMinute ELSE 0

\* DateTime.fromISO(e.timestamp, { zone: 'utc' }).setZone(tz). A raw
\* timestamp is the ISO string the vendor sent: whether it parses, and the
\* instant it then denotes.
fromISO(timestamp, tz) ==
  [ms |-> IF timestamp.ok THEN Num(timestamp.ms) ELSE NaN, zone |-> tz]

toMillis(dt) == dt.ms

\* dt.toFormat('yyyy-LL-dd'): the local day, counted from the epoch.
fmtDate(dt) ==
  IF dt.ms.nan THEN "Invalid DateTime"
  ELSE "day " \o ToString((dt.ms.val + ZoneOffsetMs(dt.zone)) \div MsPerDay)

\* dt.toFormat('HH:mm:ss'): the local second of the day.
fmtTime(dt) ==
  IF dt.ms.nan THEN "Invalid DateTime"
  ELSE "sec " \o ToString(((dt.ms.val + ZoneOffsetMs(dt.zone)) % MsPerDay) \div MsPerSecond)

(***************************************************************************)
(* Array.prototype.sort.  The comparator's NaN counts as +0.  The sort is  *)
(* stable; when the comparator is not a consistent comparator the order    *)
(* is implementation-defined, so every permutation is an outcome.          *)
(***************************************************************************)
\* filtered.sort((a, b) => a.ts.toMillis() - b.ts.toMillis())
CompareTs(a, b) == NumSub(toMillis(a.ts), toMillis(b.ts))

\* The comparator without its tie-break.
CompareResultsByTotalOnly(a, b) == NumSub(b.totalMs, a.totalMs)

\* results.sort: largest total first; if totals tie, more violations first.
CompareResults(a, b) ==
  IF NumNeq(b.totalMs, a.totalMs) THEN NumSub(b.totalMs, a.totalMs)
  ELSE Num(Len(b.violations) - Len(a.violations))

Compare(by, a, b) ==
  LET v == IF by = "ts" THEN CompareTs(a, b) ELSE CompareResults(a, b)
  IN IF v.nan THEN 0 ELSE v.val

Sign(n) == IF n < 0 THEN -1 ELSE IF n > 0 THEN 1 ELSE 0

\* The number the comparator reads off x may be NaN.
NaNKey(by, x) == IF by = "ts" THEN toMillis(x.ts).nan ELSE x.totalMs.nan

\* The comparator orders s consistently: it always does when it compares
\* numbers, none of them NaN.
ConsistentComparator(by, s) ==
  \/ \A i \in 1..Len(s) : ~NaNKey(by, s[i])
  \/ \A i, j \in 1..Len(s) :
       /\ Sign(Compare(by, s[j], s[i])) = 0 - Sign(Compare(by, s[i], s[j]))
       /\ \A k \in 1..Len(s) :
            (Sign(Compare(by, s[i], s[j])) = Sign(Compare(by, s[j], s[k])))
              => (Sign(Compare(by, s[i], s[k])) = Sign(Compare(by, s[i], s[j])))

\* x put behind every element of the sorted s that does not sort after it.
InsertStable(by, s, x) ==
  LET after == {i \in 1..Len(s) : Compare(by, s[i], x) > 0}
      at == IF after = {} THEN Len(s) + 1
            ELSE CHOOSE i \in after : \A j \in after : i <= j
  IN SubSeq(s, 1, at - 1) \o <<x>> \o SubSeq(s, at, Len(s))

\* A sort that leaves the array as it came.
StableSortSkipped(by, s) == s

RECURSIVE StableSort(_, _)
StableSort(by, s) ==
  IF s = <<>> THEN <<>>
  ELSE InsertStable(by, StableSort(by, SubSeq(s, 1, Len(s) - 1)), s[Len(s)])

Reorderings(s) ==
  LET n == Len(s)
      bij == {p \in [1..n -> 1..n] : \A i, j \in 1..n : p[i] = p[j] => i = j}
  IN {[i \in 1..n |-> s[p[i]]] : p \in bij}

SortOutcomes(by, s) ==
  IF ConsistentComparator(by, s) THEN {StableSort(by, s)} ELSE Reorderings(s)

(***************************************************************************)
(* The report pipeline of GET /api/break-report, steps 3 and 4.            *)
(*                                                                         *)
(* A raw event is [event_id, event_type, doorId, direction, userId,        *)
(* message, timestamp]: doorId stands for info.doorId || e.device_id,      *)
(* userId for info.userId || info.userInfo?.userId, "" for a missing       *)
(* field.  Names, site and door labels are carried through untouched by    *)
(* the code and are left out.                                              *)
(***************************************************************************)
\* The door filter letting APB-typed events through whatever their door.
DoorMatchesOrApb(e, door_id) == e.doorId = door_id \/ isAPB(e.event_type)

\* No door filter.
DoorMatchesAny(e, door_id) == TRUE

\* .filter((e) => eventDoorId === door_id)
DoorMatches(e, door_id) ==
  LET eventDoorId == IF e.doorId # "" THEN e.doorId ELSE "null"
  IN eventDoorId = door_id

\* .map((e) => ({ ... }))
Normalize(e, tz) ==
  LET d == normalizeDirection(e.direction)
  IN [event_id |-> e.event_id,
      event_type |-> e.event_type,
      violationMessage |-> e.message,
      ts |-> fromISO(e.timestamp, tz),
      userId |-> IF e.userId # "" THEN e.userId ELSE "unknown",
      direction |-> d.norm,
      directionLabel |-> d.label]

\* .filter((e) => e.direction === 'in' || e.direction === 'out' || APB)
KeepNormalized(e) ==
  \/ e.direction = "in"
  \/ e.direction = "out"
  \/ isAPB(e.event_type)

\* rawEvents.filter(door).map(normalize).filter(direction or APB), before
\* the sort.
FilterAndNormalize(rawEvents, door_id, tz) ==
  LET atDoor(e) == DoorMatches(e, door_id)
      doorEvents == SelectSeq(rawEvents, atDoor)
      normalized == [i \in 1..Len(doorEvents) |-> Normalize(doorEvents[i], tz)]
  IN SelectSeq(normalized, KeepNormalized)

\* byUser: the keys of the Map in insertion order.
RECURSIVE UserOrder(_)
UserOrder(evs) ==
  IF evs = <<>> THEN <<>>
  ELSE LET before == UserOrder(SubSeq(evs, 1, Len(evs) - 1))
           u == evs[Len(evs)].userId
       IN IF \E i \in 1..Len(before) : before[i] = u THEN before
          ELSE Append(before, u)

\* The grouping that hands every user all the events.
EventsOfAnyUser(evs, userId) == evs

\* byUser.get(userId)
EventsOfUser(evs, userId) ==
  LET mine(e) == e.userId = userId
  IN SelectSeq(evs, mine)

\* The state of the loop over one user's events: lastInbound is <<>> for
\* null and <<ev>> for an unmatched IN.
PairInit == [lastInbound |-> <<>>, pairs |-> <<>>, violations |-> <<>>]

ViolationOf(ev) ==
  [event_id |-> ev.event_id,
   date |-> fmtDate(ev.ts),
   time |-> fmtTime(ev.ts),
   message |-> IF ev.violationMessage # "" THEN <<ev.violationMessage>>
               ELSE ApbLabel(ev.event_type),
   event_type |-> ev.event_type]

PairOf(userId, first, second) ==
  LET durationMs == MathMax0(NumSub(toMillis(second.ts), toMillis(first.ts)))
  IN [userId |-> userId,
      in |-> [event_id |-> first.event_id,
              date |-> fmtDate(first.ts), time |-> fmtTime(first.ts),
              atLocation |-> first.directionLabel],
      out |-> [event_id |-> second.event_id,
               date |-> fmtDate(second.ts), time |-> fmtTime(second.ts),
               atLocation |-> second.directionLabel],
      totalMs |-> durationMs,
      totalLabel |-> msToHMM(durationMs)]

\* The loop's turn with the first unmatched IN kept (a queue's head) where
\* the code keeps the latest.
PairStepOldestIn(userId, st, ev) ==
  LET withViolation ==
        IF isAPB(ev.event_type)
        THEN [st EXCEPT !.violations = Append(@, ViolationOf(ev))]
        ELSE st
  IN IF ev.direction = "in"
     THEN IF withViolation.lastInbound = <<>>
          THEN [withViolation EXCEPT !.lastInbound = <<ev>>]
          ELSE withViolation
     ELSE IF ev.direction = "out"
     THEN IF withViolation.lastInbound # <<>>
          THEN [withViolation EXCEPT
                  !.pairs = Append(@, PairOf(userId, withViolation.lastInbound[1], ev)),
                  !.lastInbound = <<>>]
          ELSE withViolation
     ELSE withViolation

\* The loop's turn with an OUT that finds no unmatched IN reported as a
\* pair of its own.
PairStepOrphanOut(userId, st, ev) ==
  LET withViolation ==
        IF isAPB(ev.event_type)
        THEN [st EXCEPT !.violations = Append(@, ViolationOf(ev))]
        ELSE st
  IN IF ev.direction = "in"
     THEN [withViolation EXCEPT !.lastInbound = <<ev>>]
     ELSE IF ev.direction = "out"
     THEN IF withViolation.lastInbound # <<>>
          THEN [withViolation EXCEPT
                  !.pairs = Append(@, PairOf(userId, withViolation.lastInbound[1], ev)),
                  !.lastInbound = <<>>]
          ELSE [withViolation EXCEPT !.pairs = Append(@, PairOf(userId, ev, ev))]
     ELSE withViolation

\* The loop's turn with a violation clearing the unmatched IN.
PairStepApbResets(userId, st, ev) ==
  LET withViolation ==
        IF isAPB(ev.event_type)
        THEN [st EXCEPT !.violations = Append(@, ViolationOf(ev)), !.lastInbound = <<>>]
        ELSE st
  IN IF ev.direction = "in"
     THEN [withViolation EXCEPT !.lastInbound = <<ev>>]
     ELSE IF ev.direction = "out"
     THEN IF withViolation.lastInbound # <<>>
          THEN [withViolation EXCEPT
                  !.pairs = Append(@, PairOf(userId, withViolation.lastInbound[1], ev)),
                  !.lastInbound = <<>>]
          ELSE withViolation
     ELSE withViolation

\* One turn of `for (const ev of evs)`.
PairStep(userId, st, ev) ==
  LET withViolation ==
        IF isAPB(ev.event_type)
        THEN [st EXCEPT !.violations = Append(@, ViolationOf(ev))]
        ELSE st
  IN IF ev.direction = "in"
     THEN [withViolation EXCEPT !.lastInbound = <<ev>>]
     ELSE IF ev.direction = "out"
     THEN IF withViolation.lastInbound # <<>>
          THEN [withViolation EXCEPT
                  !.pairs = Append(@, PairOf(userId, withViolation.lastInbound[1], ev)),
                  !.lastInbound = <<>>]
          ELSE withViolation
     ELSE withViolation

RECURSIVE PairLoop(_, _)
PairLoop(userId, evs) ==
  IF evs = <<>> THEN PairInit
  ELSE PairStep(userId, PairLoop(userId, SubSeq(evs, 1, Len(evs) - 1)), evs[Len(evs)])

\* The reduce that returns p.totalMs where the code returns sum + p.totalMs.
SumTotalMsOfLast(pairs) ==
  IF pairs = <<>> THEN Num(0) ELSE pairs[Len(pairs)].totalMs

\* pairs.reduce((sum, p) => sum + p.totalMs, 0)
RECURSIVE SumTotalMs(_)
SumTotalMs(pairs) ==
  IF pairs = <<>> THEN Num(0)
  ELSE NumAdd(SumTotalMs(SubSeq(pairs, 1, Len(pairs) - 1)), pairs[Len(pairs)].totalMs)

\* The entry with an IN still unmatched at the end of the loop flushed as a
\* pair of its own.
UserEntryFlushingIn(userId, evs) ==
  LET st == PairLoop(userId, evs)
      pairs == IF st.lastInbound = <<>> THEN st.pairs
               ELSE Append(st.pairs, PairOf(userId, st.lastInbound[1], st.lastInbound[1]))
      totalMs == SumTotalMs(pairs)
  IN [userId |-> userId,
      totalMs |-> totalMs,
      totalLabel |-> msToHMM(totalMs),
      pairs |-> pairs,
      violations |-> st.violations]

UserEntry(userId, evs) ==
  LET st == PairLoop(userId, evs)
      totalMs == SumTotalMs(st.pairs)
  IN [userId |-> userId,
      totalMs |-> totalMs,
      totalLabel |-> msToHMM(totalMs),
      pairs |-> st.pairs,
      violations |-> st.violations]

\* The inclusion rule without its violations clause.
IncludedByTotalOnly(entry, threshold) ==
  NumGE(entry.totalMs, Num(threshold * SecPerMinute * MsPerSecond))

\* if (totalMs >= minMinutes * 60 * 1000 || violations.length > 0)
Included(entry, threshold) ==
  \/ NumGE(entry.totalMs, Num(threshold * SecPerMinute * MsPerSecond))
  \/ Len(entry.violations) > 0

\* results, before results.sort: one entry per included user, in the
\* order of the Map's keys.
Results(evs, threshold) ==
  LET order == UserOrder(evs)
      entries == [i \in 1..Len(order) |->
                    UserEntry(order[i], EventsOfUser(evs, order[i]))]
      keep(entry) == Included(entry, threshold)
  IN SelectSeq(entries, keep)

(***************************************************************************)
(* The vendor API, as the handler sees it.                                 *)
(***************************************************************************)
BreakRoomDoor == [door_id |-> "d1", name |-> "Break Room", timezone |-> "America/Chicago"]
LobbyDoor == [door_id |-> "d2", name |-> "Lobby", timezone |-> ""]

\* The door lists GET /access/v1/doors answers with.
DoorLists == {<<BreakRoomDoor, LobbyDoor>>, <<LobbyDoor>>}

KeycardType == <<"DOOR", "KEYCARD", "ENTERED", "ACCEPTED">>
ApbType == <<"DOOR", "APB", "DOUBLE", "ENTRY">>

RawEvent(userId, doorId, direction, event_type, timestamp) ==
  [event_id |-> 0, event_type |-> event_type, doorId |-> doorId,
   direction |-> direction, userId |-> userId, message |-> "",
   timestamp |-> timestamp]

Parsable(times) == {[ok |-> TRUE, ms |-> t] : t \in times}
Unparsable == [ok |-> FALSE, ms |-> 0]

\* A request's query: "undefined" is a parameter left out.
Query(doorParam, dateParam, minParam) ==
  [door_id |-> doorParam, date |-> dateParam, min_minutes |-> minParam]

\* Number(min_minutes)
NumberOf(param) ==
  CASE param = "0" -> Num(0)
    [] param = "1" -> Num(1)
    [] OTHER -> NaN

\* DateTime.fromISO(date, { zone: tz, setZone: true }), and DateTime.now()
\* for a missing date: the local day counted from the epoch, <<>> when the
\* date is not valid.  The clock of the model stands on 2024-05-01.
TargetDay(date) ==
  IF date \in {"undefined", "2024-05-01"} THEN <<19844>> ELSE <<>>

\* toUnix(targetDay.startOf('day')) and toUnix(targetDay.endOf('day'))
DayRange(day, tz) ==
  LET startUnix == day * SecPerDay - ZoneOffsetMs(tz) \div MsPerSecond
  IN [start_unix |-> startUnix, end_unix |-> startUnix + SecPerDay - 1, tz |-> tz]

(***************************************************************************)
(* Scenarios: the events the vendor holds and the queries clients send.    *)
(***************************************************************************)
\* The queries that fail before the events are fetched.
FailingQueries ==
  {Query("undefined", "undefined", "undefined"),
   Query("d3", "2024-05-01", "0"),
   Query("d1", "2024-13-45", "0")}

\* "pairing": the events of one user at the requested door, in and out,
\* with and without an APB type.
PairingEvents ==
  {RawEvent("u1", "d1", dk[1], dk[2], t) :
     dk \in {<<"in", KeycardType>>, <<"out", KeycardType>>,
             <<"in", ApbType>>, <<"out", ApbType>>, <<"", ApbType>>},
     t \in Parsable(Times)}

PairingQueries == FailingQueries \cup {Query("d1", "2024-05-01", "0")}

\* "users": two users at the requested door, under three thresholds.
UsersEvents ==
  {RawEvent(u, "d1", dk[1], dk[2], t) :
     u \in {"u1", "u2"},
     dk \in {<<"in", KeycardType>>, <<"out", KeycardType>>, <<"", ApbType>>},
     t \in Parsable(CoarseTimes)}

UsersQueries ==
  FailingQueries \cup
  {Query("d1", "2024-05-01", "0"), Query("d1", "2024-05-01", "1"),
   Query("d1", "undefined", "undefined")}

\* "doors": one user at the requested door and at another one, with events
\* that are neither in nor out.
DoorsEvents ==
  {RawEvent("u1", d, dk[1], dk[2], t) :
     d \in {"d1", "d2"},
     dk \in {<<"in", KeycardType>>, <<"out", KeycardType>>,
             <<"Denied", KeycardType>>, <<"", ApbType>>},
     t \in Parsable(CoarseTimes)}

\* "malformed": one user at the requested door, some timestamps not ISO.
MalformedEvents ==
  {RawEvent("u1", "d1", dk[1], dk[2], t) :
     dk \in {<<"in", KeycardType>>, <<"out", KeycardType>>, <<"", ApbType>>},
     t \in Parsable(CoarseTimes) \cup {Unparsable}}

\* "shared": one short visit to the requested door, asked for under two
\* thresholds by clients served side by side.
SharedEvents ==
  {RawEvent("u1", "d1", "in", KeycardType, [ok |-> TRUE, ms |-> 0]),
   RawEvent("u1", "d1", "out", KeycardType, [ok |-> TRUE, ms |-> 30000])}

SharedQueries ==
  FailingQueries \cup {Query("d1", "2024-05-01", "0"), Query("d1", "2024-05-01", "1")}

\* "labels": one user entering at 0 and leaving after the durations whose
\* labels are of interest, around the half minutes and the full hours.
LabelTimes ==
  {0, 29999, 30000, 59000, 90000, 720000, 3569999, 3570000, 3600000, 5400000}

LabelsEvents ==
  {RawEvent("u1", "d1", "in", KeycardType, [ok |-> TRUE, ms |-> 0])} \cup
  {RawEvent("u1", "d1", "out", KeycardType, t) : t \in Parsable(LabelTimes)}

\* hh:mm of the day, in ms.
Clock(hh, mm) == (hh * MinutesPerHour + mm) * MsPerMinute

\* "day": the events of one day. U1 is in at 09:00, out at 09:50, in at
\* 10:05, out at 10:06; U2 is in at 09:00 and out at 09:46.  Clients ask
\* with the default threshold.
DayEvents ==
  {RawEvent("U1", "d1", "in", KeycardType, [ok |-> TRUE, ms |-> Clock(9, 0)]),
   RawEvent("U1", "d1", "out", KeycardType, [ok |-> TRUE, ms |-> Clock(9, 50)]),
   RawEvent("U1", "d1", "in", KeycardType, [ok |-> TRUE, ms |-> Clock(10, 5)]),
   RawEvent("U1", "d1", "out", KeycardType, [ok |-> TRUE, ms |-> Clock(10, 6)]),
   RawEvent("U2", "d1", "in", KeycardType, [ok |-> TRUE, ms |-> Clock(9, 0)]),
   RawEvent("U2", "d1", "out", KeycardType, [ok |-> TRUE, ms |-> Clock(9, 46)])}

DayQueries == FailingQueries \cup {Query("d1", "2024-05-01", "undefined")}

\* "directions": the direction strings the vendor sends, in every spelling
\* of the model, on plain events and, for those that are neither in nor
\* out, on APB events too; all at one instant, so that they are paired in
\* the order the vendor sent them.
DirectionStrings ==
  {"in", "IN", "Entry", "ENTRANCE", "out", "Out", "EXIT", "Egress", "Denied", ""}

DirectionsEvents ==
  {RawEvent("u1", "d1", d, KeycardType, [ok |-> TRUE, ms |-> 0]) : d \in DirectionStrings}
  \cup
  {RawEvent("u1", "d1", d, ApbType, [ok |-> TRUE, ms |-> 0]) : d \in {"Denied", ""}}

\* "cache": one entry at the requested door; what matters is the clock.
CacheEvents == {RawEvent("u1", "d1", "in", KeycardType, [ok |-> TRUE, ms |-> 0])}

\* "paging": a visit with a second exit, sent over several pages.
PagingEvents ==
  SharedEvents \cup {RawEvent("u1", "d1", "out", KeycardType, [ok |-> TRUE, ms |-> 60000])}

VendorEvents(name) ==
  CASE name = "cache" -> CacheEvents
    [] name = "paging" -> PagingEvents
    [] name = "pairing" -> PairingEvents
    [] name = "users" -> UsersEvents
    [] name = "doors" -> DoorsEvents
    [] name = "malformed" -> MalformedEvents
    [] name = "shared" -> SharedEvents
    [] name = "labels" -> LabelsEvents
    [] name = "day" -> DayEvents
    [] name = "directions" -> DirectionsEvents

\* The scenarios in which the vendor holds each of its events once.
EachEventOnce == {"day"}

ClientQueries(name) ==
  CASE name = "users" -> UsersQueries
    [] name = "shared" -> SharedQueries
    [] name = "day" -> DayQueries
    [] OTHER -> PairingQueries

(***************************************************************************)
(* State.                                                                  *)
(***************************************************************************)
VARIABLES
  scenario,       \* names the events the vendor holds and the queries clients send
  requests,       \* the requests the server handles side by side
  now,            \* Math.floor(Date.now() / 1000)
  apiTokenCache,  \* the module-level token cache
  pc,             \* per request: idle, token, doors, events or done
  door_id,        \* per request: req.query.door_id
  minMinutes,     \* per request
  date,           \* per request: req.query.date
  tokenNow,       \* per request: `now` of getBearerToken
  apiToken,       \* per request
  allDoors,       \* per request: the doors fetched, <<>> before
  door,           \* per request: <<>> or <<the door found>>
  all,            \* per request: fetchAllAccessEvents' `all`
  next,           \* per request: fetchAllAccessEvents' `next`, "" for null
  page_token,     \* per request: the page_token of the events fetch in flight, "" for none
  rawEvents,      \* per request: what fetchAllAccessEvents returned
  filtered,       \* per request: the events kept, normalized and sorted
  failure,        \* per request: what went wrong, and how many events were held then
  sent            \* per request: the responses written so far

vars == <<scenario, requests, now, apiTokenCache, pc, door_id,
          minMinutes, date, tokenNow, apiToken, allDoors, door, all, next,
          page_token, rawEvents, filtered, failure, sent>>

\* What no request changes.
world == <<scenario, requests, now>>

\* The handler's locals.
locals == <<door_id, minMinutes, date, tokenNow, apiToken, allDoors, door, all, next,
            page_token, rawEvents, filtered>>

InitWith(name, reqs) ==
  /\ scenario = name
  /\ requests = reqs
  /\ now = 0
  /\ apiTokenCache = [token |-> "", expiresAt |-> 0]
  /\ pc = [r \in reqs |-> "idle"]
  /\ door_id = [r \in reqs |-> "undefined"]
  /\ minMinutes = [r \in reqs |-> DefaultMinMinutes]
  /\ date = [r \in reqs |-> "undefined"]
  /\ tokenNow = [r \in reqs |-> 0]
  /\ apiToken = [r \in reqs |-> ""]
  /\ allDoors = [r \in reqs |-> <<>>]
  /\ door = [r \in reqs |-> <<>>]
  /\ all = [r \in reqs |-> <<>>]
  /\ next = [r \in reqs |-> ""]
  /\ page_token = [r \in reqs |-> ""]
  /\ rawEvents = [r \in reqs |-> <<>>]
  /\ filtered = [r \in reqs |-> <<>>]
  /\ failure = [r \in reqs |-> [what |-> "", held |-> 0]]
  /\ sent = [r \in reqs |-> <<>>]

Json(status, body) == [status |-> status, body |-> body]

(***************************************************************************)
(* GET /api/break-report.  Each action is the handler's run from one await *)
(* to the next.                                                            *)
(***************************************************************************)
\* res.status(...).json(...) and the end of the handler.
Respond(r, status, body) ==
  /\ sent' = [sent EXCEPT ![r] = Append(@, Json(status, body))]
  /\ pc' = [pc EXCEPT ![r] = "done"]

\* What went wrong is noted for the record; the handler keeps no such note.
Note(r, what) == failure' = [failure EXCEPT ![r] = [what |-> what, held |-> Len(all[r])]]

\* catch (err) { res.status(500).json(...) }
Fail(r) == Respond(r, 500, [error |-> "Failed to generate break report"])

\* A request arrives: the handler's locals start afresh.
Arrive(r, q) ==
  /\ pc[r] \in {"idle", "done"}
  /\ door_id' = [door_id EXCEPT ![r] = q.door_id]
  /\ date' = [date EXCEPT ![r] = q.date]
  /\ allDoors' = [allDoors EXCEPT ![r] = <<>>]
  /\ door' = [door EXCEPT ![r] = <<>>]
  /\ all' = [all EXCEPT ![r] = <<>>]
  /\ next' = [next EXCEPT ![r] = ""]
  /\ page_token' = [page_token EXCEPT ![r] = ""]
  /\ rawEvents' = [rawEvents EXCEPT ![r] = <<>>]
  /\ filtered' = [filtered EXCEPT ![r] = <<>>]

\* Number.isFinite(Number(min_minutes)) ? Number(min_minutes) : 45
MinMinutesOf(param) ==
  IF NumberOf(param).nan THEN DefaultMinMinutes ELSE NumberOf(param).val

\* The test letting a token through in the second it expires.
CacheFreshAtExpiry == apiTokenCache.token # "" /\ apiTokenCache.expiresAt >= now

CacheFresh == apiTokenCache.token # "" /\ apiTokenCache.expiresAt > now

\* if (!door_id) return res.status(400)
ReceiveWithoutDoor(r) ==
  /\ \E q \in ClientQueries(scenario) :
       /\ q.door_id = "undefined"
       /\ Arrive(r, q)
  /\ minMinutes' = [minMinutes EXCEPT ![r] = DefaultMinMinutes]
  /\ tokenNow' = [tokenNow EXCEPT ![r] = 0]
  /\ apiToken' = [apiToken EXCEPT ![r] = ""]
  /\ sent' = [sent EXCEPT ![r] = <<Json(400, [error |-> "Missing door_id"])>>]
  /\ failure' = [failure EXCEPT ![r] = [what |-> "no door_id", held |-> 0]]
  /\ pc' = [pc EXCEPT ![r] = "done"]
  /\ UNCHANGED <<world, apiTokenCache>>

\* getBearerToken answers from the cache; the doors fetch is issued.
ReceiveWithCachedToken(r) ==
  /\ \E q \in ClientQueries(scenario) :
       /\ q.door_id # "undefined"
       /\ Arrive(r, q)
       /\ minMinutes' = [minMinutes EXCEPT ![r] = MinMinutesOf(q.min_minutes)]
  /\ CacheFresh
  /\ tokenNow' = [tokenNow EXCEPT ![r] = now]
  /\ apiToken' = [apiToken EXCEPT ![r] = apiTokenCache.token]
  /\ sent' = [sent EXCEPT ![r] = <<>>]
  /\ failure' = [failure EXCEPT ![r] = [what |-> "", held |-> 0]]
  /\ pc' = [pc EXCEPT ![r] = "doors"]
  /\ UNCHANGED <<world, apiTokenCache>>

\* getBearerToken finds no fresh token; the token fetch is issued.
ReceiveAndFetchToken(r) ==
  /\ \E q \in ClientQueries(scenario) :
       /\ q.door_id # "undefined"
       /\ Arrive(r, q)
       /\ minMinutes' = [minMinutes EXCEPT ![r] = MinMinutesOf(q.min_minutes)]
  /\ ~CacheFresh
  /\ tokenNow' = [tokenNow EXCEPT ![r] = now]
  /\ apiToken' = [apiToken EXCEPT ![r] = ""]
  /\ sent' = [sent EXCEPT ![r] = <<>>]
  /\ failure' = [failure EXCEPT ![r] = [what |-> "", held |-> 0]]
  /\ pc' = [pc EXCEPT ![r] = "token"]
  /\ UNCHANGED <<world, apiTokenCache>>

\* if (!res.ok) throw new Error('Failed to get API Token')
TokenFetchFails(r) ==
  /\ pc[r] = "token"
  /\ Note(r, "token fetch failed")
  /\ Fail(r)
  /\ UNCHANGED <<world, apiTokenCache, locals>>

\* const { token } = await res.json(): the vendor issues a token on every
\* POST /token; it is named after the request whose fetch it answers.
IssuedTo(r) == "tok" \o ToString(r)

\* The token arrives and is cached; the doors fetch is issued.
TokenFetched(r) ==
  /\ pc[r] = "token"
  /\ \E token \in {IssuedTo(r)} :
       /\ apiTokenCache' = [token |-> token, expiresAt |-> tokenNow[r] + TokenTtlSec]
       /\ apiToken' = [apiToken EXCEPT ![r] = token]
  /\ pc' = [pc EXCEPT ![r] = "doors"]
  /\ UNCHANGED <<world, door_id, minMinutes, date, tokenNow, allDoors, door, all,
                 next, page_token, rawEvents, filtered, failure, sent>>

\* if (!doorsResp.ok) throw new Error('Failed to fetch doors')
DoorsFetchFails(r) ==
  /\ pc[r] = "doors"
  /\ Note(r, "doors fetch failed")
  /\ Fail(r)
  /\ UNCHANGED <<world, apiTokenCache, locals>>

\* The lookup falling back on the first door of the list.
FindDoorOrFirst(doors, id) ==
  LET hits == {i \in 1..Len(doors) : doors[i].door_id = id}
  IN IF hits = {} THEN <<doors[1]>>
     ELSE <<doors[CHOOSE i \in hits : \A j \in hits : i <= j]>>

\* allDoors.find((d) => d.door_id === door_id): <<>> for undefined.
FindDoor(doors, id) ==
  LET hits == {i \in 1..Len(doors) : doors[i].door_id = id}
  IN IF hits = {} THEN <<>>
     ELSE <<doors[CHOOSE i \in hits : \A j \in hits : i <= j]>>

\* door.timezone || 'UTC'
ZoneOf(d) == IF d.timezone # "" THEN d.timezone ELSE "UTC"

\* if (!door) return res.status(404)
DoorNotFound(r) ==
  /\ pc[r] = "doors"
  /\ \E doors \in DoorLists :
       /\ FindDoor(doors, door_id[r]) = <<>>
       /\ allDoors' = [allDoors EXCEPT ![r] = doors]
  /\ Note(r, "door not found")
  /\ Respond(r, 404, [error |-> "Door not found"])
  /\ UNCHANGED <<world, apiTokenCache, door_id, minMinutes, date, tokenNow,
                 apiToken, door, all, next, page_token, rawEvents, filtered>>

\* if (!targetDay.isValid) return res.status(400)
InvalidDate(r) ==
  /\ pc[r] = "doors"
  /\ \E doors \in DoorLists :
       /\ FindDoor(doors, door_id[r]) # <<>>
       /\ allDoors' = [allDoors EXCEPT ![r] = doors]
       /\ door' = [door EXCEPT ![r] = FindDoor(doors, door_id[r])]
  /\ TargetDay(date[r]) = <<>>
  /\ Note(r, "invalid date")
  /\ Respond(r, 400, [error |-> "Invalid date format. Use YYYY-MM-DD."])
  /\ UNCHANGED <<world, apiTokenCache, door_id, minMinutes, date, tokenNow,
                 apiToken, all, next, page_token, rawEvents, filtered>>

\* Door and day are resolved; fetchAllAccessEvents asks for the first page.
DoorResolved(r) ==
  /\ pc[r] = "doors"
  /\ \E doors \in DoorLists :
       /\ FindDoor(doors, door_id[r]) # <<>>
       /\ allDoors' = [allDoors EXCEPT ![r] = doors]
       /\ door' = [door EXCEPT ![r] = FindDoor(doors, door_id[r])]
  /\ TargetDay(date[r]) # <<>>
  /\ pc' = [pc EXCEPT ![r] = "events"]
  /\ UNCHANGED <<world, apiTokenCache, door_id, minMinutes, date, tokenNow,
                 apiToken, all, next, page_token, rawEvents, filtered, failure, sent>>

\* What the vendor still has to send once `fetched` is held: any of its
\* events, up to MaxEvents of them; in the scenarios that fix the events of
\* the day, each of these once.
Unsent(fetched) ==
  IF scenario \in EachEventOnce
  THEN {e \in VendorEvents(scenario) :
          \A i \in 1..Len(fetched) : [fetched[i] EXCEPT !.event_id = 0] # e}
  ELSE IF Len(fetched) < MaxEvents THEN VendorEvents(scenario) ELSE {}

\* json.next_page_token of a page that is not the last: the vendor's cursor,
\* which names how far the events have been sent.
NextPageToken(fetched) == "after " \o ToString(Len(fetched))

\* The pages the vendor may answer with once `fetched` is held: json.events
\* missing or empty, or one more event, which the vendor numbers.
Pages(fetched) ==
  {<<>>} \cup
  {<<[e EXCEPT !.event_id = Len(fetched) + 1]>> : e \in Unsent(fetched)}

\* The page appended to an `all` that the requests in flight have in
\* common (a module-level array).
PageFetchedIntoShared(r) ==
  /\ pc[r] = "events"
  /\ \E events \in Pages(all[r]) :
       /\ all' = [q \in requests |-> all[r] \o events]
       /\ next' = [next EXCEPT ![r] = NextPageToken(all[r] \o events)]
       /\ page_token' = [page_token EXCEPT ![r] = NextPageToken(all[r] \o events)]
  /\ UNCHANGED <<world, apiTokenCache, pc, door_id, minMinutes, date, tokenNow,
                 apiToken, allDoors, door, rawEvents, filtered, failure, sent>>

\* The loop asking for the next page without the page_token.
PageFetchedAskingAnew(r) ==
  /\ pc[r] = "events"
  /\ \E events \in Pages(all[r]) :
       /\ all' = [all EXCEPT ![r] = @ \o events]
       /\ next' = [next EXCEPT ![r] = NextPageToken(all[r] \o events)]
  /\ page_token' = [page_token EXCEPT ![r] = ""]
  /\ UNCHANGED <<world, apiTokenCache, pc, door_id, minMinutes, date, tokenNow,
                 apiToken, allDoors, door, rawEvents, filtered, failure, sent>>

\* A page with a next_page_token: the loop asks for the next page.
PageFetched(r) ==
  /\ pc[r] = "events"
  /\ \E events \in Pages(all[r]) :
       /\ all' = [all EXCEPT ![r] = @ \o events]
       /\ next' = [next EXCEPT ![r] = NextPageToken(all[r] \o events)]
       /\ page_token' = [page_token EXCEPT ![r] = NextPageToken(all[r] \o events)]
  /\ UNCHANGED <<world, apiTokenCache, pc, door_id, minMinutes, date, tokenNow,
                 apiToken, allDoors, door, rawEvents, filtered, failure, sent>>

\* The body of the 200 response.
ReportBody(r, results) ==
  LET tz == ZoneOf(door[r][1])
  IN [door |-> [door_id |-> door[r][1].door_id, name |-> door[r][1].name,
                timezone |-> tz],
      generatedRange |-> DayRange(TargetDay(date[r])[1], tz),
      min_minutes |-> minMinutes[r],
      users |-> results]

\* The last page (no next_page_token): fetchAllAccessEvents returns `all`,
\* the report is built from rawEvents and sent.
LastPageFetched(r) ==
  /\ pc[r] = "events"
  /\ \E events \in Pages(all[r]) :
       LET fetched == all[r] \o events
           tz == ZoneOf(door[r][1])
       IN /\ rawEvents' = [rawEvents EXCEPT ![r] = fetched]
          /\ \E sorted \in SortOutcomes("ts", FilterAndNormalize(fetched, door_id[r], tz)) :
               /\ filtered' = [filtered EXCEPT ![r] = sorted]
               /\ \E results \in SortOutcomes("results", Results(sorted, minMinutes[r])) :
                    Respond(r, 200, ReportBody(r, results))
  /\ all' = [all EXCEPT ![r] = <<>>]
  /\ next' = [next EXCEPT ![r] = ""]
  /\ page_token' = [page_token EXCEPT ![r] = ""]
  /\ UNCHANGED <<world, apiTokenCache, door_id, minMinutes, date, tokenNow,
                 apiToken, allDoors, door, failure>>

\* The failed page ending the loop as a last page would: a report of the
\* pages fetched so far.
PageFetchFailsPartially(r) ==
  /\ pc[r] = "events"
  /\ Note(r, "events fetch failed")
  /\ rawEvents' = [rawEvents EXCEPT ![r] = all[r]]
  /\ LET sorted == StableSort("ts", FilterAndNormalize(all[r], door_id[r], ZoneOf(door[r][1])))
     IN /\ filtered' = [filtered EXCEPT ![r] = sorted]
        /\ Respond(r, 200, ReportBody(r, StableSort("results", Results(sorted, minMinutes[r]))))
  /\ all' = [all EXCEPT ![r] = <<>>]
  /\ next' = [next EXCEPT ![r] = ""]
  /\ page_token' = [page_token EXCEPT ![r] = ""]
  /\ UNCHANGED <<world, apiTokenCache, door_id, minMinutes, date, tokenNow,
                 apiToken, allDoors, door>>

\* if (!resp.ok) throw: fetchAllAccessEvents' frame is gone, rawEvents is
\* never assigned.
PageFetchFails(r) ==
  /\ pc[r] = "events"
  /\ all' = [all EXCEPT ![r] = <<>>]
  /\ next' = [next EXCEPT ![r] = ""]
  /\ page_token' = [page_token EXCEPT ![r] = ""]
  /\ Note(r, "events fetch failed")
  /\ Fail(r)
  /\ UNCHANGED <<world, apiTokenCache, door_id, minMinutes, date, tokenNow,
                 apiToken, allDoors, door, rawEvents, filtered>>

DoReceiveWithoutDoor == \E r \in requests : ReceiveWithoutDoor(r)
DoReceiveWithCachedToken == \E r \in requests : ReceiveWithCachedToken(r)
DoReceiveAndFetchToken == \E r \in requests : ReceiveAndFetchToken(r)
DoTokenFetchFails == \E r \in requests : TokenFetchFails(r)
DoTokenFetched == \E r \in requests : TokenFetched(r)
DoDoorsFetchFails == \E r \in requests : DoorsFetchFails(r)
DoDoorNotFound == \E r \in requests : DoorNotFound(r)
DoInvalidDate == \E r \in requests : InvalidDate(r)
DoDoorResolved == \E r \in requests : DoorResolved(r)
DoPageFetchFails == \E r \in requests : PageFetchFails(r)
DoPageFetched == \E r \in requests : PageFetched(r)
DoLastPageFetched == \E r \in requests : LastPageFetched(r)

\* Date.now() moves on between two steps of the server, by half the
\* lifetime of a cached token.
TickSec == TokenTtlSec \div 2

Tick ==
  /\ now < MaxTicks * TickSec
  /\ now' = now + TickSec
  /\ UNCHANGED <<scenario, requests, apiTokenCache, pc, locals, failure, sent>>

Next ==
  \/ DoReceiveWithoutDoor
  \/ DoReceiveWithCachedToken
  \/ DoReceiveAndFetchToken
  \/ DoTokenFetchFails
  \/ DoTokenFetched
  \/ DoDoorsFetchFails
  \/ DoDoorNotFound
  \/ DoInvalidDate
  \/ DoDoorResolved
  \/ DoPageFetchFails
  \/ DoPageFetched
  \/ DoLastPageFetched

(***************************************************************************)
(* Specifications.  Each one fixes the scenario; the handler is the same   *)
(* in all.                                                                 *)
(***************************************************************************)
Init == InitWith("pairing", {1})

Spec == Init /\ [][Next]_vars

InitUsers == InitWith("users", {1})

SpecUsers == InitUsers /\ [][Next]_vars

InitDoors == InitWith("doors", {1})

SpecDoors == InitDoors /\ [][Next]_vars

InitMalformed == InitWith("malformed", {1})

SpecMalformed == InitMalformed /\ [][Next]_vars

\* Two requests served side by side.
InitShared == InitWith("shared", {1, 2})

SpecShared == InitShared /\ [][Next]_vars

InitLabels == InitWith("labels", {1})

SpecLabels == InitLabels /\ [][Next]_vars

InitDay == InitWith("day", {1})

SpecDay == InitDay /\ [][Next]_vars

\* Two requests served side by side while the clock advances.
InitCache == InitWith("cache", {1, 2})

NextCache == Next \/ Tick

SpecCache == InitCache /\ [][NextCache]_vars

\* One request, with the vendor in the end sending a page that carries no
\* next_page_token.
InitPaging == InitWith("paging", {1})

\* WF_vars(DoLastPageFetched) with its ENABLED written out: the vendor can
\* send the last page exactly while the request waits for a page.
SpecPaging ==
  /\ InitPaging
  /\ [][Next]_vars
  /\ []<>(pc[1] # "events") \/ []<><<DoLastPageFetched>>_vars

InitDirections == InitWith("directions", {1})

SpecDirections == InitDirections /\ [][Next]_vars

(***************************************************************************)
(* What the claims speak of.                                               *)
(***************************************************************************)
\* Request r was answered with a report.
Served(r) == pc[r] = "done" /\ sent[r] # <<>> /\ sent[r][1].status = 200

\* The users list of the report.
Users(r) == sent[r][1].body.users

\* The time-sorted events of one user, as the pairing loop walks them.
SequenceOf(r, userId) ==
  LET mine(e) == e.userId = userId
  IN SelectSeq(filtered[r], mine)

\* The in and out events of a sequence, in order.
Directional(evs) ==
  LET inOrOut(e) == e.direction \in {"in", "out"}
  IN SelectSeq(evs, inOrOut)

Directions(evs) == [i \in 1..Len(evs) |-> evs[i].direction]

EventIds(evs) == [i \in 1..Len(evs) |-> evs[i].event_id]

CountOf(evs, direction) == Cardinality({i \in 1..Len(evs) : evs[i].direction = direction})

ApbEvents(evs) ==
  LET apb(e) == isAPB(e.event_type)
  IN SelectSeq(evs, apb)

\* Every entry of every report sent satisfies P.
EveryEntry(P(_, _)) ==
  \A r \in requests :
    Served(r) => \A i \in 1..Len(Users(r)) :
                   P(Users(r)[i], SequenceOf(r, Users(r)[i].userId))

\* Some entry of some report sent satisfies P.
SomeEntry(P(_, _)) ==
  \E r \in requests :
    /\ Served(r)
    /\ \E i \in 1..Len(Users(r)) : P(Users(r)[i], SequenceOf(r, Users(r)[i].userId))

(***************************************************************************)
(* C1.  Most-recent-in-wins: every pair of a user joins an `out` with the  *)
(* latest `in` before it, no other `in` or `out` of that user lying         *)
(* between the two; and a user whose in and out events are in1, in2, out   *)
(* gets exactly one pair, (in2, out).                                      *)
(***************************************************************************)
C1_PairUsesLatestIn(entry, evs) ==
  /\ \A k \in 1..Len(entry.pairs) :
       \E n, o \in 1..Len(evs) :
         /\ n < o
         /\ evs[n].event_id = entry.pairs[k].in.event_id
         /\ evs[o].event_id = entry.pairs[k].out.event_id
         /\ evs[n].direction = "in"
         /\ evs[o].direction = "out"
         /\ \A m \in (n + 1)..(o - 1) : evs[m].direction \notin {"in", "out"}
  /\ Directions(Directional(evs)) = <<"in", "in", "out">>
       => /\ Len(entry.pairs) = 1
          /\ entry.pairs[1].in.event_id = Directional(evs)[2].event_id
          /\ entry.pairs[1].out.event_id = Directional(evs)[3].event_id

C1_MostRecentInWins == EveryEntry(C1_PairUsesLatestIn)

C1_TwoInsThenOut(entry, evs) ==
  /\ Directions(evs) = <<"in", "in", "out">>
  /\ toMillis(evs[1].ts).val < toMillis(evs[2].ts).val
  /\ Len(entry.pairs) = 1
  /\ entry.pairs[1].in.event_id = evs[2].event_id

C1_Witness == SomeEntry(C1_TwoInsThenOut)

(***************************************************************************)
(* C2.  A user has at most as many pairs as `out` events, and in every     *)
(* pair the out event is not earlier than the in event, the duration       *)
(* being a number >= 0.                                                    *)
(***************************************************************************)
C2_PairsBoundedAndForward(entry, evs) ==
  /\ Len(entry.pairs) <= CountOf(evs, "out")
  /\ \A k \in 1..Len(entry.pairs) :
       /\ ~entry.pairs[k].totalMs.nan
       /\ entry.pairs[k].totalMs.val >= 0
       /\ \E n, o \in 1..Len(evs) :
            /\ evs[n].event_id = entry.pairs[k].in.event_id
            /\ evs[o].event_id = entry.pairs[k].out.event_id
            /\ toMillis(evs[o].ts).val >= toMillis(evs[n].ts).val

C2_PairsAtMostOuts == EveryEntry(C2_PairsBoundedAndForward)

C2_FewerPairsThanOuts(entry, evs) ==
  /\ Len(entry.pairs) = 1
  /\ CountOf(evs, "out") = 2
  /\ entry.pairs[1].totalMs.val > 0

C2_Witness == SomeEntry(C2_FewerPairsThanOuts)

(***************************************************************************)
(* C3.  An `out` met while no `in` is pending adds no pair and leaves      *)
(* nothing pending, and a user whose in and out events are all `out` has   *)
(* no pair.                                                                *)
(***************************************************************************)
C3_OrphanOutChangesNothing(entry, evs) ==
  /\ \A k \in 1..Len(evs) :
       LET before == PairLoop(entry.userId, SubSeq(evs, 1, k - 1))
           after == PairLoop(entry.userId, SubSeq(evs, 1, k))
       IN (before.lastInbound = <<>> /\ evs[k].direction = "out")
            => /\ after.pairs = before.pairs
               /\ after.lastInbound = <<>>
  /\ (\A k \in 1..Len(evs) : evs[k].direction # "in") => entry.pairs = <<>>
  /\ (Directions(Directional(evs)) = <<"in", "out", "out">>) =>
       /\ Len(entry.pairs) = 1
       /\ entry.pairs[1].out.event_id = Directional(evs)[2].event_id

C3_OrphanOutDropped == EveryEntry(C3_OrphanOutChangesNothing)

C3_OutAfterPair(entry, evs) ==
  /\ Directions(evs) = <<"in", "out", "out">>
  /\ Len(entry.pairs) = 1

C3_Witness == SomeEntry(C3_OutAfterPair)

(***************************************************************************)
(* C4.  Every APB-typed event of a user makes exactly one entry of the     *)
(* user's violations, and no APB-typed event is the in or the out event    *)
(* of a pair.                                                              *)
(***************************************************************************)
C4_ViolationsAreTheApbEvents(entry, evs) ==
  EventIds(entry.violations) = EventIds(ApbEvents(evs))

C4_NoApbEventInPair(entry, evs) ==
  \A k \in 1..Len(entry.pairs) :
    \A n \in 1..Len(evs) :
      evs[n].event_id \in {entry.pairs[k].in.event_id, entry.pairs[k].out.event_id}
        => ~isAPB(evs[n].event_type)

C4_ApbEntry(entry, evs) ==
  /\ C4_ViolationsAreTheApbEvents(entry, evs)
  /\ C4_NoApbEventInPair(entry, evs)

C4_ApbNeverPaired == EveryEntry(C4_ApbEntry)

(***************************************************************************)
(* C5.  A user whose events reach the pairing is listed if and only if     *)
(* the user's total paired duration is at least min_minutes x 60000 ms or  *)
(* the user has a violation; nobody else is listed; and a listed user with *)
(* total 0 and one violation carries the total label "0m".                 *)
(***************************************************************************)
UsersSeen(r) == {filtered[r][i].userId : i \in 1..Len(filtered[r])}

Listed(r, userId) == \E i \in 1..Len(Users(r)) : Users(r)[i].userId = userId

C5_IncludedIffThresholdOrViolation ==
  \A r \in requests :
    Served(r) =>
      /\ \A i \in 1..Len(Users(r)) : Users(r)[i].userId \in UsersSeen(r)
      /\ \A u \in UsersSeen(r) :
           LET total == UserEntry(u, SequenceOf(r, u)).totalMs
           IN Listed(r, u) <=> \/ total.val >= minMinutes[r] * MsPerMinute
                               \/ ApbEvents(SequenceOf(r, u)) # <<>>
      /\ \A i \in 1..Len(Users(r)) :
           (Users(r)[i].totalMs = Num(0) /\ Len(Users(r)[i].violations) = 1)
             => Users(r)[i].totalLabel = "0m"

C5_Witness ==
  \E r \in requests :
    /\ Served(r)
    /\ minMinutes[r] > 0
    /\ \E u \in UsersSeen(r) : ~Listed(r, u)
    /\ \E i \in 1..Len(Users(r)) :
         /\ Users(r)[i].totalMs = Num(0)
         /\ Len(Users(r)[i].violations) = 1
         /\ Users(r)[i].totalLabel = "0m"

(***************************************************************************)
(* C6, as the spec states it.  The filter is a logical OR: an event is     *)
(* kept if its door matches and its direction is in or out, or if its type *)
(* has the APB prefix, whatever its door; and a kept APB event surfaces as *)
(* a violation.                                                            *)
(***************************************************************************)
RetainedIds(r) == {filtered[r][i].event_id : i \in 1..Len(filtered[r])}

ViolationIds(r) ==
  UNION {{Users(r)[i].violations[k].event_id : k \in 1..Len(Users(r)[i].violations)} :
           i \in 1..Len(Users(r))}

PairedIds(r) ==
  UNION {UNION {{Users(r)[i].pairs[k].in.event_id, Users(r)[i].pairs[k].out.event_id} :
                  k \in 1..Len(Users(r)[i].pairs)} :
           i \in 1..Len(Users(r))}

AtRequestedDoor(r, e) == e.doorId = door_id[r]

InOrOut(e) == normalizeDirection(e.direction).norm \in {"in", "out"}

C6_ApbKeptWhateverTheDoor ==
  \A r \in requests :
    Served(r) =>
      \A i \in 1..Len(rawEvents[r]) :
        /\ ((AtRequestedDoor(r, rawEvents[r][i]) /\ InOrOut(rawEvents[r][i]))
              \/ isAPB(rawEvents[r][i].event_type))
             => i \in RetainedIds(r)
        /\ isAPB(rawEvents[r][i].event_type) => i \in ViolationIds(r)

(***************************************************************************)
(* C6, amended.  The filter is the door test and a logical OR: an event is *)
(* kept if and only if its door is the requested door and its direction    *)
(* is in or out or its type has the APB prefix; the violations of the      *)
(* report are the APB events of the requested door, so an APB event of     *)
(* another door is dropped.                                                *)
(***************************************************************************)
C6_KeptIffDoorAndEither ==
  \A r \in requests :
    Served(r) =>
      /\ RetainedIds(r) =
           {i \in 1..Len(rawEvents[r]) :
              /\ AtRequestedDoor(r, rawEvents[r][i])
              /\ InOrOut(rawEvents[r][i]) \/ isAPB(rawEvents[r][i].event_type)}
      /\ ViolationIds(r) =
           {i \in 1..Len(rawEvents[r]) :
              /\ AtRequestedDoor(r, rawEvents[r][i])
              /\ isAPB(rawEvents[r][i].event_type)}

C6_Witness ==
  \E r \in requests :
    /\ Served(r)
    /\ \E i, j \in 1..Len(rawEvents[r]) :
         /\ isAPB(rawEvents[r][i].event_type)
         /\ ~AtRequestedDoor(r, rawEvents[r][i])
         /\ i \notin RetainedIds(r)
         /\ i \notin ViolationIds(r)
         /\ isAPB(rawEvents[r][j].event_type)
         /\ AtRequestedDoor(r, rawEvents[r][j])
         /\ j \in ViolationIds(r)

(***************************************************************************)
(* C7.  An event without the APB prefix that is at another door, or whose  *)
(* direction is neither in nor out, never reaches the pairing: it is in    *)
(* no pair and no violation, and a request that fetched only such events   *)
(* lists no user.                                                          *)
(***************************************************************************)
Discarded(r, e) ==
  /\ ~isAPB(e.event_type)
  /\ ~AtRequestedDoor(r, e) \/ ~InOrOut(e)

C7_OtherDoorNeverPaired ==
  \A r \in requests :
    Served(r) =>
      /\ \A i \in 1..Len(rawEvents[r]) :
           Discarded(r, rawEvents[r][i])
             => /\ i \notin RetainedIds(r)
                /\ i \notin PairedIds(r)
                /\ i \notin ViolationIds(r)
      /\ (\A i \in 1..Len(rawEvents[r]) : Discarded(r, rawEvents[r][i]))
           => Users(r) = <<>>

C7_Witness ==
  \E r \in requests :
    /\ Served(r)
    /\ \E i, j, k \in 1..Len(rawEvents[r]) :
         /\ ~AtRequestedDoor(r, rawEvents[r][i])
         /\ InOrOut(rawEvents[r][i])
         /\ Discarded(r, rawEvents[r][i])
         /\ AtRequestedDoor(r, rawEvents[r][j])
         /\ Discarded(r, rawEvents[r][j])
         /\ k \in RetainedIds(r)
    /\ Len(Users(r)) = 1

(***************************************************************************)
(* C8.  The users of a report stand by descending total; users with equal  *)
(* totals by descending number of violations; users equal in both in the   *)
(* order in which their first events stand in the time-sorted events.      *)
(***************************************************************************)
FirstSeen(r, userId) ==
  CHOOSE i \in 1..Len(filtered[r]) :
    /\ filtered[r][i].userId = userId
    /\ \A j \in 1..(i - 1) : filtered[r][j].userId # userId

C8_UsersOrdered ==
  \A r \in requests :
    Served(r) =>
      \A i, j \in 1..Len(Users(r)) :
        i < j =>
          LET a == Users(r)[i]
              b == Users(r)[j]
          IN /\ a.totalMs.val >= b.totalMs.val
             /\ a.totalMs.val = b.totalMs.val
                  => Len(a.violations) >= Len(b.violations)
             /\ (a.totalMs.val = b.totalMs.val /\ Len(a.violations) = Len(b.violations))
                  => FirstSeen(r, a.userId) < FirstSeen(r, b.userId)

C8_Witness ==
  \E r \in requests :
    /\ Served(r)
    /\ Len(Users(r)) = 2
    /\ Users(r)[1].totalMs = Users(r)[2].totalMs
    /\ Len(Users(r)[1].violations) = 2
    /\ Len(Users(r)[2].violations) = 0
    /\ FirstSeen(r, Users(r)[2].userId) < FirstSeen(r, Users(r)[1].userId)

(***************************************************************************)
(* C9.  An event whose timestamp does not parse is dropped before the      *)
(* pairing: the report is the report of the same events without it.        *)
(***************************************************************************)
WellFormed(events) ==
  LET parses(e) == e.timestamp.ok
  IN SelectSeq(events, parses)

ReportWithout(r) ==
  LET kept == FilterAndNormalize(WellFormed(rawEvents[r]), door_id[r], ZoneOf(door[r][1]))
  IN StableSort("results", Results(StableSort("ts", kept), minMinutes[r]))

C9_MalformedEventDropped ==
  \A r \in requests : Served(r) => Users(r) = ReportWithout(r)

(***************************************************************************)
(* C10.  A request is answered once, when it ends: with an error that      *)
(* carries no users when the query, the token fetch, the door fetch, the   *)
(* door lookup, the date or a page of events failed, whatever was fetched  *)
(* before; otherwise with the report of all the events fetched.            *)
(***************************************************************************)
C10_OneResponseNoPartialReport ==
  \A r \in requests :
    /\ Len(sent[r]) <= 1
    /\ pc[r] = "done" <=> Len(sent[r]) = 1
    /\ pc[r] = "done" =>
         /\ failure[r].what # "" <=> sent[r][1].status # 200
         /\ sent[r][1].status # 200 => DOMAIN sent[r][1].body = {"error"}
         /\ sent[r][1].status = 200 =>
              /\ DOMAIN sent[r][1].body = {"door", "generatedRange", "min_minutes", "users"}
              /\ filtered[r] = StableSort("ts", FilterAndNormalize(rawEvents[r], door_id[r],
                                                                   ZoneOf(door[r][1])))
              /\ Users(r) = StableSort("results", Results(filtered[r], minMinutes[r]))

C10_Witness ==
  \E r \in requests :
    /\ pc[r] = "done"
    /\ failure[r] = [what |-> "events fetch failed", held |-> MaxEvents - 1]
    /\ sent[r] = <<Json(500, [error |-> "Failed to generate break report"])>>

(***************************************************************************)
(* C11.  Once the doors are fetched: a door id that is not in the list     *)
(* ends the request with "Door not found", and a door that is in the list  *)
(* with a date that is no calendar date ends it with "Invalid date         *)
(* format"; either answer is written by the step that looked the door up,  *)
(* with no event fetched, kept, sorted or paired, and a request that has   *)
(* ended is taken up again only by a new query.  The events are asked for  *)
(* only with the door found and the date valid.                            *)
(***************************************************************************)
DoorListed(r) == \E i \in 1..Len(allDoors[r]) : allDoors[r][i].door_id = door_id[r]

NothingFetched(r) ==
  /\ all[r] = <<>>
  /\ next[r] = ""
  /\ rawEvents[r] = <<>>
  /\ filtered[r] = <<>>

DoorNotFoundSent == <<Json(404, [error |-> "Door not found"])>>

InvalidDateSent == <<Json(400, [error |-> "Invalid date format. Use YYYY-MM-DD."])>>

C11_Outcome(r) ==
  allDoors[r] # <<>> =>
    /\ ~DoorListed(r) =>
         /\ pc[r] = "done"
         /\ sent[r] = DoorNotFoundSent
         /\ NothingFetched(r)
    /\ (DoorListed(r) /\ TargetDay(date[r]) = <<>>) =>
         /\ pc[r] = "done"
         /\ sent[r] = InvalidDateSent
         /\ NothingFetched(r)
    /\ pc[r] = "events" => (DoorListed(r) /\ TargetDay(date[r]) # <<>>)

C11_Step(r) ==
  /\ (sent'[r] # sent[r] /\ sent'[r] \in {DoorNotFoundSent, InvalidDateSent})
       => (pc[r] = "doors" /\ pc'[r] = "done")
  /\ (pc[r] = "done" /\ pc'[r] # "done")
       => (allDoors'[r] = <<>> /\ pc'[r] \in {"token", "doors"})

C11_LookupFailureEndsRequest ==
  /\ [](\A r \in requests : C11_Outcome(r))
  /\ [][\A r \in requests : C11_Step(r)]_vars

C11_Witness ==
  /\ door_id[1] = "d1"
  /\ allDoors[1] = <<LobbyDoor>>
  /\ sent[1] = DoorNotFoundSent
  /\ DoorListed(2)
  /\ date[2] = "2024-13-45"
  /\ sent[2] = InvalidDateSent

(***************************************************************************)
(* C12.  Order independence: the report of any reordering of the raw       *)
(* events holds the same entry (pairs, violations, total) for every user   *)
(* as the report sent, and users that are not tied on total and violation  *)
(* count stand in the same order; also when an `in` and an `out` of one    *)
(* user carry the same timestamp.                                          *)
(***************************************************************************)
\* The report the handler builds from the raw events `raws` for request r
\* (the timestamps all parse, so both sorts have one outcome).
ReportOf(r, raws) ==
  LET kept == FilterAndNormalize(raws, door_id[r], ZoneOf(door[r][1]))
  IN StableSort("results", Results(StableSort("ts", kept), minMinutes[r]))

Entries(users) == {users[i] : i \in 1..Len(users)}

Tied(a, b) == a.totalMs = b.totalMs /\ Len(a.violations) = Len(b.violations)

SameReport(a, b) ==
  /\ Entries(a) = Entries(b)
  /\ \A i, j \in 1..Len(a) :
       (i < j /\ ~Tied(a[i], a[j]))
         => \E k, l \in 1..Len(b) : k < l /\ b[k] = a[i] /\ b[l] = a[j]

C12_OrderIndependent ==
  \A r \in requests :
    Served(r) =>
      \A raws \in Reorderings(rawEvents[r]) : SameReport(Users(r), ReportOf(r, raws))

(***************************************************************************)
(* C14.  A user's total is the sum of the durations of the pairs listed    *)
(* for the user, and the APB-typed events of the user's sequence add       *)
(* nothing to it: the total is the total of the sequence without them.     *)
(***************************************************************************)
WithoutApb(evs) ==
  LET plain(e) == ~isAPB(e.event_type)
  IN SelectSeq(evs, plain)

C14_TotalOfPairsOnly(entry, evs) ==
  /\ \A k \in 1..Len(entry.pairs) : ~entry.pairs[k].totalMs.nan
  /\ entry.totalMs = SumTotalMs(entry.pairs)
  /\ entry.totalMs = UserEntry(entry.userId, WithoutApb(evs)).totalMs

C14_ViolationsAddNothing == EveryEntry(C14_TotalOfPairsOnly)

(***************************************************************************)
(* C13, as the spec states it.  With two requests in flight, interleaved   *)
(* at their awaits, each request is answered as its own query and the      *)
(* vendor's answers to it determine, and nothing one request wrote is read *)
(* by the other: the token a request presents is one issued to it.         *)
(***************************************************************************)
\* What is kept for request r alone.
Own(r) ==
  <<pc[r], door_id[r], minMinutes[r], date[r], tokenNow[r], apiToken[r], allDoors[r],
    door[r], all[r], next[r], page_token[r], rawEvents[r], filtered[r], failure[r],
    sent[r]>>

\* The answer that r's query and the vendor's answers to r call for.
AnswerAlone(r) ==
  IF door_id[r] = "undefined" THEN Json(400, [error |-> "Missing door_id"])
  ELSE IF allDoors[r] = <<>> THEN Json(500, [error |-> "Failed to generate break report"])
  ELSE IF ~DoorListed(r) THEN DoorNotFoundSent[1]
  ELSE IF TargetDay(date[r]) = <<>> THEN InvalidDateSent[1]
  ELSE IF failure[r].what # "" THEN Json(500, [error |-> "Failed to generate break report"])
  ELSE Json(200, ReportBody(r, ReportOf(r, rawEvents[r])))

AnsweredAsAlone(r) == pc[r] = "done" => sent[r] = <<AnswerAlone(r)>>

C13_NothingShared ==
  \A r \in requests :
    /\ AnsweredAsAlone(r)
    /\ apiToken[r] \in {"", IssuedTo(r)}

(***************************************************************************)
(* C13, amended.  The token cache is the one piece of state that crosses   *)
(* requests: it is written when a request's token fetch returns, and a     *)
(* request that finds it fresh presents its token, whoever fetched it.     *)
(* Everything else is kept per request: a step serves one request and      *)
(* leaves the other's state alone, and each request is answered as its     *)
(* own query and the vendor's answers to it determine.                     *)
(***************************************************************************)
C13_Step ==
  /\ \A r, q \in requests : (r # q /\ Own(r)' # Own(r)) => Own(q)' = Own(q)
  /\ apiTokenCache' # apiTokenCache
       => \E r \in requests :
            /\ pc[r] = "token"
            /\ pc'[r] = "doors"
            /\ apiTokenCache'.token = apiToken'[r]
  /\ \A r \in requests :
       (pc[r] \in {"idle", "done"} /\ pc'[r] = "doors")
         => (apiTokenCache.token # "" /\ apiToken'[r] = apiTokenCache.token)

C13_OnlyTokenCacheShared ==
  /\ [](\A r \in requests : AnsweredAsAlone(r))
  /\ [][C13_Step]_vars

C13_Witness ==
  /\ pc[1] = "events"
  /\ pc[2] = "events"
  /\ apiToken[1] = IssuedTo(1)
  /\ apiToken[2] = IssuedTo(1)
  /\ minMinutes[1] # minMinutes[2]
  /\ Len(all[1]) = 2
  /\ Len(all[2]) = 1

(***************************************************************************)
(* C15.  Every duration label of a report (of a pair, of a user's total)   *)
(* encodes the duration rounded to the nearest whole minute, half minutes  *)
(* up: "<m>m" below 60 minutes, "<h>h <m>m" with m < 60 from 60 minutes    *)
(* on; 0 ms is "0m", 59000 ms "1m", 3600000 ms "1h 0m", 5400000 ms         *)
(* "1h 30m".                                                               *)
(***************************************************************************)
\* n is ms / 60000 rounded to the nearest integer, a half rounding up.
NearestMinute(ms, n) ==
  /\ 2 * ms >= 2 * MsPerMinute * n - MsPerMinute
  /\ 2 * ms < 2 * MsPerMinute * n + MsPerMinute

\* label spells n minutes as hours and minutes.
Spells(label, n) ==
  \E h \in 0..n : \E m \in 0..(MinutesPerHour - 1) :
    /\ n = h * MinutesPerHour + m
    /\ label = IF n >= MinutesPerHour
               THEN ToString(h) \o "h " \o ToString(m) \o "m"
               ELSE ToString(m) \o "m"

Labelled(x) ==
  /\ ~x.totalMs.nan
  /\ x.totalMs.val >= 0
  /\ \E n \in 0..(x.totalMs.val \div MsPerMinute + 1) :
       /\ NearestMinute(x.totalMs.val, n)
       /\ Spells(x.totalLabel, n)
  /\ x.totalMs.val = 0 => x.totalLabel = "0m"
  /\ x.totalMs.val = 59000 => x.totalLabel = "1m"
  /\ x.totalMs.val = 3600000 => x.totalLabel = "1h 0m"
  /\ x.totalMs.val = 5400000 => x.totalLabel = "1h 30m"

C15_EntryLabelled(entry, evs) ==
  /\ Labelled(entry)
  /\ \A k \in 1..Len(entry.pairs) : Labelled(entry.pairs[k])

C15_LabelsRoundToNearestMinute == EveryEntry(C15_EntryLabelled)

C15_RoundsUp(entry, evs) ==
  /\ Len(entry.pairs) = 1
  /\ entry.pairs[1].totalMs = Num(59000)
  /\ entry.pairs[1].totalLabel = "1m"

C15_Witness == SomeEntry(C15_RoundsUp)

(***************************************************************************)
(* C19, as the spec states it.  The label of 90000 ms is "1h 30m", and a   *)
(* duration that rounds to less than 60 minutes is labelled with its       *)
(* minutes alone.                                                          *)
(***************************************************************************)
\* x, of less than 60 minutes when rounded, carries just "<minutes>m".
MinutesAlone(x) ==
  \A n \in 0..(MinutesPerHour - 1) :
    NearestMinute(x.totalMs.val, n) => x.totalLabel = ToString(n) \o "m"

C19_NinetySecondsAsHours(entry, evs) ==
  \A k \in 1..Len(entry.pairs) :
    /\ entry.pairs[k].totalMs = Num(90000) => entry.pairs[k].totalLabel = "1h 30m"
    /\ MinutesAlone(entry.pairs[k])

C19_NinetyThousandMsIsHourAndHalf == EveryEntry(C19_NinetySecondsAsHours)

(***************************************************************************)
(* C19, amended.  The label of 5400000 ms (90 minutes) is "1h 30m"; that   *)
(* of 90000 ms (a minute and a half) is "2m"; and a duration that rounds   *)
(* to less than 60 minutes is labelled with its minutes alone, 720000 ms   *)
(* being "12m".                                                            *)
(***************************************************************************)
C19_NinetyMinutesAsHours(entry, evs) ==
  \A k \in 1..Len(entry.pairs) :
    /\ entry.pairs[k].totalMs = Num(5400000) => entry.pairs[k].totalLabel = "1h 30m"
    /\ entry.pairs[k].totalMs = Num(90000) => entry.pairs[k].totalLabel = "2m"
    /\ entry.pairs[k].totalMs = Num(720000) => entry.pairs[k].totalLabel = "12m"
    /\ MinutesAlone(entry.pairs[k])

C19_HourComponentFromSixtyMinutes == EveryEntry(C19_NinetyMinutesAsHours)

C19_HourAndHalf(entry, evs) ==
  /\ Len(entry.pairs) = 1
  /\ entry.pairs[1].totalMs = Num(5400000)
  /\ entry.pairs[1].totalLabel = "1h 30m"

C19_Witness == SomeEntry(C19_HourAndHalf)

(***************************************************************************)
(* C16.  A user whose time-sorted events alternate in, out, in, out, ...   *)
(* (2k events) has exactly k pairs, the i-th joining the (2i-1)-th and     *)
(* the 2i-th event, and the sum of the k durations as total.  With U1 in   *)
(* at 09:00, out at 09:50, in at 10:05, out at 10:06 and the threshold at  *)
(* 45 minutes, U1 is listed with two pairs labelled "50m" and "1m" and     *)
(* the total "51m", before every user with a smaller total.                *)
(***************************************************************************)
Alternating(evs) ==
  /\ Len(evs) % 2 = 0
  /\ \A i \in 1..Len(evs) : evs[i].direction = IF i % 2 = 1 THEN "in" ELSE "out"

\* The time from each odd event to the even event after it, added up.
RECURSIVE TimeInside(_)
TimeInside(evs) ==
  IF Len(evs) < 2 THEN 0
  ELSE TimeInside(SubSeq(evs, 1, Len(evs) - 2))
         + toMillis(evs[Len(evs)].ts).val - toMillis(evs[Len(evs) - 1].ts).val

C16_PairsInTurn(entry, evs) ==
  Alternating(evs) =>
    /\ Len(entry.pairs) * 2 = Len(evs)
    /\ \A i \in 1..Len(entry.pairs) :
         /\ entry.pairs[i].in.event_id = evs[2 * i - 1].event_id
         /\ entry.pairs[i].out.event_id = evs[2 * i].event_id
    /\ entry.totalMs = Num(TimeInside(evs))

TimesOf(evs) == [i \in 1..Len(evs) |-> toMillis(evs[i].ts).val]

C16_AlternatingGivesPairsInTurn ==
  /\ EveryEntry(C16_PairsInTurn)
  /\ \A r \in requests :
       Served(r) =>
         /\ \A u \in UsersSeen(r) :
              C16_PairsInTurn(UserEntry(u, SequenceOf(r, u)), SequenceOf(r, u))
         /\ (/\ minMinutes[r] = 45
             /\ TimesOf(SequenceOf(r, "U1"))
                  = <<Clock(9, 0), Clock(9, 50), Clock(10, 5), Clock(10, 6)>>)
              => \E i \in 1..Len(Users(r)) :
                   /\ Users(r)[i].userId = "U1"
                   /\ Len(Users(r)[i].pairs) = 2
                   /\ Users(r)[i].pairs[1].totalLabel = "50m"
                   /\ Users(r)[i].pairs[2].totalLabel = "1m"
                   /\ Users(r)[i].totalMs = Num(Clock(0, 51))
                   /\ Users(r)[i].totalLabel = "51m"
                   /\ \A j \in 1..Len(Users(r)) :
                        Users(r)[j].totalMs.val < Clock(0, 51) => i < j

C16_Witness ==
  \E r \in requests :
    /\ Served(r)
    /\ minMinutes[r] = 45
    /\ Alternating(SequenceOf(r, "U1"))
    /\ Len(SequenceOf(r, "U1")) = 4
    /\ rawEvents[r][1].userId = "U2"
    /\ Len(Users(r)) = 2
    /\ Users(r)[1].userId = "U1"
    /\ Users(r)[1].totalLabel = "51m"
    /\ Users(r)[2].totalLabel = "46m"

(***************************************************************************)
(* C17.  Pairing is per user, however the users' events interleave in the  *)
(* time-sorted stream: both events of every pair of a user are events of   *)
(* that user, and the user's pairs and violations are those the user       *)
(* would get were the other users' events not there.                       *)
(***************************************************************************)
\* The raw events of request r that are userId's.
RawEventsOf(r, userId) ==
  LET mine(e) == e.userId = userId
  IN SelectSeq(rawEvents[r], mine)

\* The user's entry in the report built from the user's raw events alone.
EntryAlone(r, userId) ==
  LET kept == FilterAndNormalize(RawEventsOf(r, userId), door_id[r], ZoneOf(door[r][1]))
  IN UserEntry(userId, StableSort("ts", kept))

OwnerOf(r, id) == rawEvents[r][id].userId

C17_PairingPerUser ==
  \A r \in requests :
    Served(r) =>
      \A i \in 1..Len(Users(r)) :
        LET entry == Users(r)[i]
        IN /\ \A k \in 1..Len(entry.pairs) :
                /\ OwnerOf(r, entry.pairs[k].in.event_id) = entry.userId
                /\ OwnerOf(r, entry.pairs[k].out.event_id) = entry.userId
           /\ \A k \in 1..Len(entry.violations) :
                OwnerOf(r, entry.violations[k].event_id) = entry.userId
           /\ entry.pairs = EntryAlone(r, entry.userId).pairs
           /\ entry.violations = EntryAlone(r, entry.userId).violations

C17_Witness ==
  \E r \in requests :
    /\ Served(r)
    /\ [i \in 1..Len(filtered[r]) |-> filtered[r][i].userId] = <<"u1", "u2", "u1">>
    /\ Directions(filtered[r]) = <<"in", "out", "out">>
    /\ Len(Users(r)) = 2
    /\ \E i, j \in 1..2 :
         /\ Users(r)[i].userId = "u1"
         /\ Len(Users(r)[i].pairs) = 1
         /\ Users(r)[j].userId = "u2"
         /\ Users(r)[j].pairs = <<>>

(***************************************************************************)
(* C18.  Directions are normalized by the synonym table, whatever the      *)
(* case: in, entry, entrance become `in`; out, exit, egress become `out`;  *)
(* a missing or empty direction becomes `unknown`; any other value goes    *)
(* through lowercased.  Only an event normalized to `in` is ever the in    *)
(* event of a pair or left pending, only one normalized to `out` closes a  *)
(* pair, and an event of any other direction leaves pairs and pending in   *)
(* as they were.                                                           *)
(***************************************************************************)
InSpellings == {"in", "IN", "Entry", "ENTRANCE"}

OutSpellings == {"out", "Out", "EXIT", "Egress"}

SynonymTable(raw) ==
  CASE raw \in InSpellings -> "in"
    [] raw \in OutSpellings -> "out"
    [] raw = "" -> "unknown"
    [] raw = "Denied" -> "denied"

C18_Normalized(r) ==
  /\ \A i \in 1..Len(rawEvents[r]) :
       Normalize(rawEvents[r][i], ZoneOf(door[r][1])).direction
         = SynonymTable(rawEvents[r][i].direction)
  /\ \A i \in 1..Len(filtered[r]) :
       filtered[r][i].direction = SynonymTable(rawEvents[r][filtered[r][i].event_id].direction)

C18_OnlyInAndOutPair(entry, evs) ==
  /\ \A k \in 1..Len(entry.pairs) :
       \E n, o \in 1..Len(evs) :
         /\ evs[n].event_id = entry.pairs[k].in.event_id
         /\ evs[o].event_id = entry.pairs[k].out.event_id
         /\ evs[n].direction = "in"
         /\ evs[o].direction = "out"
  /\ \A k \in 1..Len(evs) :
       LET before == PairLoop(entry.userId, SubSeq(evs, 1, k - 1))
           after == PairLoop(entry.userId, SubSeq(evs, 1, k))
       IN /\ evs[k].direction \notin {"in", "out"}
               => (after.pairs = before.pairs /\ after.lastInbound = before.lastInbound)
          /\ after.lastInbound # before.lastInbound
               => evs[k].direction \in {"in", "out"}
          /\ after.lastInbound # <<>> => after.lastInbound[1].direction = "in"

C18_DirectionsBySynonymTable ==
  /\ \A r \in requests : Served(r) => C18_Normalized(r)
  /\ EveryEntry(C18_OnlyInAndOutPair)

C18_Witness ==
  \E r \in requests :
    /\ Served(r)
    /\ [i \in 1..Len(rawEvents[r]) |-> rawEvents[r][i].direction] = <<"Entry", "Denied", "EXIT">>
    /\ Directions(filtered[r]) = <<"in", "denied", "out">>
    /\ Len(Users(r)) = 1
    /\ Len(Users(r)[1].pairs) = 1
    /\ Users(r)[1].pairs[1].in.event_id = 1
    /\ Users(r)[1].pairs[1].out.event_id = 3

(***************************************************************************)
(* C20.  An APB-typed event whose direction is neither in nor out adds     *)
(* one violation and leaves the pairing as it was: the pending in and the  *)
(* pairs are the same after it as before it; in, APB, out still gives the  *)
(* pair (in, out); and a user's pairs are those of the sequence without    *)
(* such events, the violations one more for each of them.                  *)
(***************************************************************************)
ApbOnly(e) == isAPB(e.event_type) /\ e.direction \notin {"in", "out"}

WithoutApbOnly(evs) ==
  LET other(e) == ~ApbOnly(e)
  IN SelectSeq(evs, other)

C20_ViolationKeepsPairing(entry, evs) ==
  /\ \A k \in 1..Len(evs) :
       LET before == PairLoop(entry.userId, SubSeq(evs, 1, k - 1))
           after == PairLoop(entry.userId, SubSeq(evs, 1, k))
       IN ApbOnly(evs[k]) =>
            /\ after.lastInbound = before.lastInbound
            /\ after.pairs = before.pairs
            /\ Len(after.violations) = Len(before.violations) + 1
            /\ after.violations[Len(after.violations)].event_id = evs[k].event_id
  /\ entry.pairs = PairLoop(entry.userId, WithoutApbOnly(evs)).pairs
  /\ Len(entry.violations)
       = Len(PairLoop(entry.userId, WithoutApbOnly(evs)).violations)
           + Len(evs) - Len(WithoutApbOnly(evs))
  /\ (Len(evs) = 3 /\ evs[1].direction = "in" /\ ApbOnly(evs[2]) /\ evs[3].direction = "out")
       => /\ Len(entry.pairs) = 1
          /\ entry.pairs[1].in.event_id = evs[1].event_id
          /\ entry.pairs[1].out.event_id = evs[3].event_id

C20_ViolationLeavesPendingIn == EveryEntry(C20_ViolationKeepsPairing)

C20_InApbOut(entry, evs) ==
  /\ Len(evs) = 3
  /\ evs[1].direction = "in"
  /\ ~isAPB(evs[1].event_type)
  /\ ApbOnly(evs[2])
  /\ evs[3].direction = "out"
  /\ ~isAPB(evs[3].event_type)
  /\ toMillis(evs[1].ts).val < toMillis(evs[2].ts).val
  /\ toMillis(evs[2].ts).val < toMillis(evs[3].ts).val
  /\ Len(entry.pairs) = 1
  /\ Len(entry.violations) = 1

C20_Witness == SomeEntry(C20_InApbOut)

(***************************************************************************)
(* C21.  An `in` still pending when a user's events end is dropped: the    *)
(* report is sent all the same, the user has at most as many pairs as `in` *)
(* events, an `in` with no `out` after it is the in event of no pair, and  *)
(* the pairs are those of the events before that `in`.                     *)
(***************************************************************************)
\* No `out` stands after position n.
NoOutAfter(evs, n) == \A m \in (n + 1)..Len(evs) : evs[m].direction # "out"

C21_TrailingInUnpaired(entry, evs) ==
  /\ Len(entry.pairs) <= CountOf(evs, "in")
  /\ \A n \in 1..Len(evs) :
       (evs[n].direction = "in" /\ NoOutAfter(evs, n))
         => /\ \A k \in 1..Len(entry.pairs) :
                 /\ entry.pairs[k].in.event_id # evs[n].event_id
                 /\ entry.pairs[k].out.event_id # evs[n].event_id
            /\ entry.pairs = PairLoop(entry.userId, SubSeq(evs, 1, n - 1)).pairs

C21_PendingInDiscarded == EveryEntry(C21_TrailingInUnpaired)

C21_InOutIn(entry, evs) ==
  /\ Directions(evs) = <<"in", "out", "in">>
  /\ Len(entry.pairs) = 1
  /\ entry.pairs[1].in.event_id = evs[1].event_id
  /\ entry.totalMs.val > 0

C21_Witness == SomeEntry(C21_InOutIn)

(***************************************************************************)
(* C22.  Whatever order the events came in, every user's pairs are in      *)
(* time order and do not overlap: in_i <= out_i in every pair,             *)
(* out_i <= in_(i+1) from one pair to the next, and no event is in two     *)
(* pairs or on both sides of one.                                          *)
(***************************************************************************)
\* a <= b, false when either is NaN as in JavaScript.
NumLE(a, b) == ~a.nan /\ ~b.nan /\ a.val <= b.val

\* The timestamp of the event of evs numbered id.
TimeOf(evs, id) ==
  toMillis(evs[CHOOSE n \in 1..Len(evs) : evs[n].event_id = id].ts)

\* The events of the pairs, in the order in_1, out_1, in_2, out_2, ...
PairEvents(pairs) ==
  [i \in 1..(2 * Len(pairs)) |->
     IF i % 2 = 1 THEN pairs[(i + 1) \div 2].in.event_id
     ELSE pairs[i \div 2].out.event_id]

C22_PairsInTimeOrder(entry, evs) ==
  LET ids == PairEvents(entry.pairs)
  IN /\ \A i \in 1..(Len(ids) - 1) : NumLE(TimeOf(evs, ids[i]), TimeOf(evs, ids[i + 1]))
     /\ \A i, j \in 1..Len(ids) : ids[i] = ids[j] => i = j

C22_PairsChronological == EveryEntry(C22_PairsInTimeOrder)

(***************************************************************************)
(* C23.  The token cache, with requests interleaved and the clock moving.  *)
(* A request that needs a token goes on without a token fetch exactly when *)
(* the cache holds a token whose expiresAt is greater than the time of the *)
(* check, and then presents that token; otherwise it fetches one.  A       *)
(* failed token fetch leaves the cache as it is and ends the request with  *)
(* an error; a successful one stores the token fetched with expiresAt 300  *)
(* seconds after the time read before the fetch.  Nothing else writes the  *)
(* cache.                                                                  *)
(***************************************************************************)
\* Request r calls getBearerToken in this step.
AsksForToken(r) == pc[r] \in {"idle", "done"} /\ pc'[r] \in {"token", "doors"}

HoldsUnexpiredToken == apiTokenCache.token # "" /\ ~(apiTokenCache.expiresAt <= now)

C23_Step(r) ==
  /\ AsksForToken(r) =>
       /\ tokenNow'[r] = now
       /\ apiTokenCache' = apiTokenCache
       /\ pc'[r] = "doors" <=> HoldsUnexpiredToken
       /\ pc'[r] = "doors" => apiToken'[r] = apiTokenCache.token
  /\ (pc[r] = "token" /\ pc'[r] = "done") =>
       /\ apiTokenCache' = apiTokenCache
       /\ sent'[r] = <<Json(500, [error |-> "Failed to generate break report"])>>
  /\ (pc[r] = "token" /\ pc'[r] = "doors") =>
       /\ apiToken'[r] # ""
       /\ apiTokenCache' = [token |-> apiToken'[r], expiresAt |-> tokenNow[r] + 300]
  /\ pc[r] = "token" => pc'[r] \in {"token", "done", "doors"}

C23_TokenCache ==
  [][/\ \A r \in requests : C23_Step(r)
     /\ apiTokenCache' # apiTokenCache
          => \E r \in requests : pc[r] = "token" /\ pc'[r] = "doors"]_vars

\* Request 1 finds the token in the second it expires and fetches anew,
\* while request 2 goes on with that token, which it found unexpired some
\* time after the token was stamped.
C23_Witness ==
  /\ pc[1] = "token"
  /\ tokenNow[1] = now
  /\ apiTokenCache.token # ""
  /\ apiTokenCache.expiresAt = now
  /\ pc[2] = "events"
  /\ apiToken[2] = apiTokenCache.token
  /\ tokenNow[2] < now
  /\ tokenNow[2] > apiTokenCache.expiresAt - 300

(***************************************************************************)
(* C24.  The paginated fetch.  A page that carries a next_page_token is    *)
(* appended and the next page asked for with that token; the first page    *)
(* is asked for without one.  A page that carries none ends the loop,      *)
(* which returns the events of all pages in the order fetched.  A page     *)
(* that is not ok ends the loop at once: no events are returned and the    *)
(* request fails.  With the vendor in the end sending a page without a     *)
(* token, the loop ends.                                                   *)
(***************************************************************************)
IsPrefix(s, t) == Len(s) <= Len(t) /\ SubSeq(t, 1, Len(s)) = s

\* The events are as the vendor numbered them, none missing.
InFetchOrder(events) == \A i \in 1..Len(events) : events[i].event_id = i

C24_Step(r) ==
  /\ (pc[r] # "events" /\ pc'[r] = "events") =>
       /\ all'[r] = <<>>
       /\ next'[r] = ""
       /\ page_token'[r] = ""
  /\ (pc[r] = "events" /\ pc'[r] = "events" /\ Own(r)' # Own(r)) =>
       /\ IsPrefix(all[r], all'[r])
       /\ InFetchOrder(all'[r])
       /\ next'[r] # ""
       /\ next'[r] # next[r] \/ all'[r] = all[r]
       /\ page_token'[r] = next'[r]
       /\ sent'[r] = <<>>
  /\ (pc[r] = "events" /\ pc'[r] = "done" /\ sent'[r][1].status = 200) =>
       /\ IsPrefix(all[r], rawEvents'[r])
       /\ InFetchOrder(rawEvents'[r])
       /\ page_token'[r] = ""
  /\ (pc[r] = "events" /\ pc'[r] = "done" /\ sent'[r][1].status # 200) =>
       /\ rawEvents'[r] = <<>>
       /\ filtered'[r] = <<>>
       /\ page_token'[r] = ""
       /\ sent'[r] = <<Json(500, [error |-> "Failed to generate break report"])>>
  /\ pc[r] = "events" => pc'[r] \in {"events", "done"}

C24_PaginationEnds ==
  /\ [][\A r \in requests : C24_Step(r)]_vars
  /\ [](pc[1] = "events" => page_token[1] = next[1])
  /\ (pc[1] = "events") ~> (pc[1] = "done")

C24_Witness ==
  /\ Served(1)
  /\ Len(rawEvents[1]) = 2
  /\ InFetchOrder(rawEvents[1])
  /\ rawEvents[1][1].direction = "out"
  /\ rawEvents[1][2].direction = "in"

====
